---- MODULE Spec2Model ----
(***************************************************************************)
(* CloudPeek PointCloudViewer: the streaming queue, the ingest worker      *)
(* (processData), the point cloud store and the render loop (run/render),  *)
(* as a state machine of three kinds of threads: the render thread that    *)
(* calls run(), the worker thread run() spawns, and client threads that    *)
(* call addPoints, clearPoints and stop.                                   *)
(*                                                                         *)
(* Granularity.  A step is one access to state that other threads can see  *)
(* without a lock (the atomics is_running_ and data_updated_, the          *)
(* condition variable), together with the thread-local statements and the  *)
(* accesses to mutex-protected state next to it.  A mutex is a set of      *)
(* holders; a critical section with more than one protected write is cut   *)
(* in two so that its intermediate state is a state of the model.          *)
(***************************************************************************)
EXTENDS Integers, Sequences, FiniteSets, TLC

\* ------------------------------------------------------------------ bounds
MaxOps == 3          \* client calls (addPoints, clearPoints, replace, stop) in a run
LoaderBatches == 2   \* batches in the file that main's loader thread streams
MaxPanSteps == 1     \* frames of panning away from the origin, per axis
MaxAzimuth == 3600   \* largest |azimuth_| followed, in tenths of a degree

\* ------------------------------------------------------------- threads
Clients == {"c1", "c2"}
Worker == "worker"
Render == "render"

\* ------------------------------------------------------------- points
\* struct Point { float x, y, z; uint8_t r, g, b; } as <<x, y, z, r, g, b>>
PointA == <<1, 2, 3, 255, 0, 51>>
PointB == <<4, 5, 6, 0, 255, 255>>
Batches == {<< >>, <<PointA>>, <<PointB, PointA>>}
NoBatch == <<"none">>

\* p.r / 255.0f, in thousandths
Normalize(c) == (c * 1000) \div 255

RECURSIVE Positions(_)
Positions(batch) ==
    IF batch = << >> THEN << >>
    ELSE <<Head(batch)[1], Head(batch)[2], Head(batch)[3]>> \o Positions(Tail(batch))

RECURSIVE Colors(_)
Colors(batch) ==
    IF batch = << >> THEN << >>
    ELSE <<Normalize(Head(batch)[4]), Normalize(Head(batch)[5]), Normalize(Head(batch)[6])>>
         \o Colors(Tail(batch))

\* --------------------------------------------------------------- state
VARIABLES
    point_queue_,      \* std::queue<std::vector<Point>>
    queue_mutex_,      \* set of threads holding queue_mutex_ ({} = unlocked)
    data_mutex_,       \* set of threads holding data_mutex_
    is_running_,       \* std::atomic<bool>
    data_updated_,     \* std::atomic<bool>
    point_cloud_,      \* std::vector<float>, x y z per point
    point_colors_,     \* std::vector<float>, r g b per point
    gpu_pos,           \* contents of the buffer object vbo_
    gpu_col,           \* contents of the buffer object color_vbo_
    window_should_close, \* glfwWindowShouldClose(window_)
    r_pc,              \* render thread: position in run()/render()
    w_pc,              \* worker thread: position in processData()
    positions,         \* processData local
    colors,            \* processData local
    c_pc,              \* client thread: position in its current call
    c_batch,           \* client thread: the batch it is about to push, or NoBatch
    \* history variables
    nOps,              \* client calls started
    pushed,            \* batches in the order their emplace completed
    mergedAtClear,     \* batches merged when clearPoints last emptied the Store
    queuedAtStop,      \* Len(pushed) when is_running_ went true -> false, -1 before
    lateFrom,          \* Len(pushed) when run() cleared the flag after its loop, -1 before
    stopDone,          \* some stop() call has returned
    replaceBatch,      \* batch of a replace no other add/clear call overlaps or follows
    cleanSync,         \* a SyncData step has completed, no append or clear step since
    \* the loader thread of main.cpp
    l_pc,              \* loader thread: position in loadPCDAsyncToViewer
    l_sent,            \* loader thread: batches it has passed to addPoints
    \* camera and input state, touched by the render thread only
    target_,           \* float target_[3]
    distance_,         \* float, in hundredths
    azimuth_,          \* float, degrees, in tenths
    elevation_,        \* float, degrees, in tenths
    pan_x_,            \* float, in thousandths
    pan_y_,            \* float, in thousandths
    fov_,              \* float, degrees
    last_x_,           \* float, pixels
    last_y_,           \* float, pixels
    first_mouse_,      \* bool
    cursor_captured_,  \* bool
    toggle_pressed_,   \* bool
    f1_down,           \* history: GLFW_KEY_F1 was down in the last processInput() call
    resetDone,         \* history: the last handler to run reset a camera it found moved
    \* the window's framebuffer size and the frame's error report
    width_,            \* int
    height_,           \* int
    gl_error           \* history: glGetError() reported an error in the last frame

vars == <<point_queue_, queue_mutex_, data_mutex_, is_running_, data_updated_,
          point_cloud_, point_colors_, gpu_pos, gpu_col, window_should_close,
          r_pc, w_pc, positions, colors, c_pc, c_batch,
          nOps, pushed, mergedAtClear, queuedAtStop, lateFrom, stopDone,
          replaceBatch, cleanSync, l_pc, l_sent,
          target_, distance_, azimuth_, elevation_, pan_x_, pan_y_, fov_,
          last_x_, last_y_, first_mouse_, cursor_captured_, toggle_pressed_, f1_down, resetDone, width_, height_, gl_error>>

queueVars == <<point_queue_, queue_mutex_>>
storeVars == <<point_cloud_, point_colors_, data_updated_, data_mutex_>>
gpuVars == <<gpu_pos, gpu_col>>
workerLocals == <<positions, colors>>
clientVars == <<c_pc, c_batch>>
histVars == <<nOps, pushed, mergedAtClear, queuedAtStop, lateFrom, stopDone,
              replaceBatch>>
loaderVars == <<l_pc, l_sent>>
cameraVars == <<target_, distance_, azimuth_, elevation_, pan_x_, pan_y_, fov_>>
mouseVars == <<last_x_, last_y_, first_mouse_, cursor_captured_, toggle_pressed_,
               f1_down>>
windowVars == <<width_, height_>>
\* what the threads of the viewer proper leave alone when no key is down and
\* no mouse, scroll or resize event arrives
extVars == <<loaderVars, cameraVars, mouseVars, resetDone, windowVars, gl_error>>

\* ------------------------------------------------------ namespace Config
\* Lengths are in hundredths, angles in tenths of a degree, pan offsets in
\* thousandths, times in milliseconds, so that every product below is exact.
WINDOW_WIDTH == 1920
WINDOW_HEIGHT == 1080
INITIAL_DISTANCE == 1000      \* 10.0f
INITIAL_AZIMUTH == 0          \* 0.0f
INITIAL_ELEVATION == 200      \* 20.0f
INITIAL_FOV == 45             \* 45.0f
CAMERA_SENSITIVITY == 1       \* 0.1f degree per pixel: one tenth of a degree
ZOOM_SPEED == 35              \* 0.35f per scroll unit
PAN_SPEED == 5                \* 5.0f per second: 5 thousandths per millisecond
MIN_DISTANCE == 50            \* 0.5f
MAX_DISTANCE == 15000         \* 150.0f
ELEVATION_LIMIT == 890        \* the 89.0f of std::clamp(elevation_, -89.0f, 89.0f)

\* State after the constructor: init() has created empty buffer objects.
Init ==
    /\ point_queue_ = << >>
    /\ queue_mutex_ = {}
    /\ data_mutex_ = {}
    /\ is_running_ = FALSE
    /\ data_updated_ = FALSE
    /\ point_cloud_ = << >>
    /\ point_colors_ = << >>
    /\ gpu_pos = << >>
    /\ gpu_col = << >>
    /\ window_should_close = FALSE
    /\ r_pc = "constructed"
    /\ w_pc = "notstarted"
    /\ positions = << >>
    /\ colors = << >>
    /\ c_pc = [c \in Clients |-> "idle"]
    /\ c_batch = [c \in Clients |-> NoBatch]
    /\ nOps = 0
    /\ pushed = << >>
    /\ mergedAtClear = 0
    /\ queuedAtStop = -1
    /\ lateFrom = -1
    /\ stopDone = FALSE
    /\ replaceBatch = NoBatch
    /\ cleanSync = FALSE
    /\ l_pc = "check"
    /\ l_sent = 0
    /\ target_ = <<0, 0, 0>>
    /\ distance_ = INITIAL_DISTANCE
    /\ azimuth_ = INITIAL_AZIMUTH
    /\ elevation_ = INITIAL_ELEVATION
    /\ pan_x_ = 0
    /\ pan_y_ = 0
    /\ fov_ = INITIAL_FOV
    /\ last_x_ = WINDOW_WIDTH \div 2
    /\ last_y_ = WINDOW_HEIGHT \div 2
    /\ first_mouse_ = TRUE
    /\ cursor_captured_ = FALSE
    /\ toggle_pressed_ = FALSE
    /\ f1_down = FALSE
    /\ resetDone = FALSE
    /\ width_ = WINDOW_WIDTH
    /\ height_ = WINDOW_HEIGHT
    /\ gl_error = FALSE

\* The worker has moved a batch out of the queue and not yet appended it.
WorkerHoldsBatch == w_pc \in {"data_lock", "ins_col"}

\* Batches the worker has appended to the Store so far.
NumMerged == Len(pushed) - Len(point_queue_) - (IF WorkerHoldsBatch THEN 1 ELSE 0)

\* ------------------------------------------------- condition variable
\* queue_cond_var_.notify_one(): the only thread that ever waits is the worker.
NotifyOne(pc) == IF pc = "waiting" THEN "wake" ELSE pc

\* is_running_ = false, with the history of its true -> false transition.
ClearRunning ==
    /\ is_running_' = FALSE
    /\ queuedAtStop' = IF is_running_ THEN Len(pushed) ELSE queuedAtStop

\* ---------------------------------------------------------- addPoints
\* Mutant of Enqueue: the batch goes to the head of the queue.
Enqueue_AtFront(b) ==
    /\ queue_mutex_ = {}
    /\ point_queue_' = <<b>> \o point_queue_
    /\ pushed' = Append(pushed, b)
    /\ UNCHANGED queue_mutex_

\* { lock_guard lock(queue_mutex_); point_queue_.emplace(new_points); }
Enqueue(b) ==
    /\ queue_mutex_ = {}
    /\ point_queue_' = Append(point_queue_, b)
    /\ pushed' = Append(pushed, b)
    /\ UNCHANGED queue_mutex_

\* addPoints(b), up to the end of the lock_guard's scope
AddPointsCall(c, b) ==
    /\ c_pc[c] = "idle"
    /\ nOps < MaxOps
    /\ nOps' = nOps + 1
    /\ Enqueue(b)
    /\ c_pc' = [c_pc EXCEPT ![c] = "add_notify"]
    /\ replaceBatch' = NoBatch
    /\ UNCHANGED <<storeVars, gpuVars, window_should_close, r_pc, is_running_, w_pc,
                   workerLocals, c_batch, mergedAtClear, queuedAtStop, lateFrom,
                   stopDone>>
    /\ UNCHANGED <<cleanSync, extVars>>

\* the addPoints(b) that is the second half of a replace
AddPointsPush(c) ==
    /\ c_pc[c] = "add_push"
    /\ Enqueue(c_batch[c])
    /\ c_pc' = [c_pc EXCEPT ![c] = "add_notify"]
    /\ c_batch' = [c_batch EXCEPT ![c] = NoBatch]
    /\ UNCHANGED <<storeVars, gpuVars, window_should_close, r_pc, is_running_, w_pc,
                   workerLocals, nOps, mergedAtClear, queuedAtStop, lateFrom,
                   stopDone, replaceBatch>>
    /\ UNCHANGED <<cleanSync, extVars>>

\* Mutant of AddPointsNotify: addPoints returns without notify_one().
AddPointsNotify_NoWake(c) ==
    /\ c_pc[c] = "add_notify"
    /\ c_pc' = [c_pc EXCEPT ![c] = "idle"]
    /\ UNCHANGED <<queueVars, storeVars, gpuVars, window_should_close, r_pc,
                   is_running_, w_pc, workerLocals, c_batch, histVars>>
    /\ UNCHANGED <<cleanSync, extVars>>

\* queue_cond_var_.notify_one(); return
AddPointsNotify(c) ==
    /\ c_pc[c] = "add_notify"
    /\ w_pc' = NotifyOne(w_pc)
    /\ c_pc' = [c_pc EXCEPT ![c] = "idle"]
    /\ UNCHANGED <<queueVars, storeVars, gpuVars, window_should_close, r_pc,
                   is_running_, workerLocals, c_batch, histVars>>
    /\ UNCHANGED <<cleanSync, extVars>>

\* ---------------------------------------------------------------- stop
\* Mutant of StopCall: the flag is inverted instead of cleared.
StopCall_Toggles(c) ==
    /\ c_pc[c] = "idle"
    /\ nOps < MaxOps
    /\ nOps' = nOps + 1
    /\ is_running_' = ~is_running_
    /\ queuedAtStop' = IF is_running_ THEN Len(pushed) ELSE queuedAtStop
    /\ c_pc' = [c_pc EXCEPT ![c] = "stop_notify"]
    /\ UNCHANGED <<queueVars, storeVars, gpuVars, window_should_close, r_pc, w_pc,
                   workerLocals, c_batch, pushed, mergedAtClear, lateFrom, stopDone,
                   replaceBatch>>
    /\ UNCHANGED <<cleanSync, extVars>>

\* stop(): is_running_ = false;
StopCall(c) ==
    /\ c_pc[c] = "idle"
    /\ nOps < MaxOps
    /\ nOps' = nOps + 1
    /\ ClearRunning
    /\ c_pc' = [c_pc EXCEPT ![c] = "stop_notify"]
    /\ UNCHANGED <<queueVars, storeVars, gpuVars, window_should_close, r_pc, w_pc,
                   workerLocals, c_batch, pushed, mergedAtClear, lateFrom, stopDone,
                   replaceBatch>>
    /\ UNCHANGED <<cleanSync, extVars>>

\* queue_cond_var_.notify_one(); return
StopNotify(c) ==
    /\ c_pc[c] = "stop_notify"
    /\ w_pc' = NotifyOne(w_pc)
    /\ c_pc' = [c_pc EXCEPT ![c] = "idle"]
    /\ stopDone' = TRUE
    /\ UNCHANGED <<queueVars, storeVars, gpuVars, window_should_close, r_pc,
                   is_running_, workerLocals, c_batch, nOps, pushed, mergedAtClear,
                   queuedAtStop, lateFrom, replaceBatch>>
    /\ UNCHANGED <<cleanSync, extVars>>

\* --------------------------------------------------------- clearPoints
\* lock_guard lock(data_mutex_); point_cloud_.clear();
ClearPositions(c) ==
    /\ data_mutex_ = {}
    /\ data_mutex_' = {c}
    /\ point_cloud_' = << >>
    /\ mergedAtClear' = NumMerged
    /\ c_pc' = [c_pc EXCEPT ![c] = "clr_col"]
    /\ UNCHANGED <<point_colors_, data_updated_>>
    /\ cleanSync' = FALSE

\* clearPoints(), up to point_cloud_.clear()
ClearPointsCall(c) ==
    /\ c_pc[c] = "idle"
    /\ nOps < MaxOps
    /\ nOps' = nOps + 1
    /\ ClearPositions(c)
    /\ replaceBatch' = NoBatch
    /\ UNCHANGED <<queueVars, gpuVars, window_should_close, r_pc, is_running_, w_pc,
                   workerLocals, c_batch, pushed, queuedAtStop, lateFrom, stopDone>>
    /\ UNCHANGED extVars

\* The replace operation, clearPoints() followed by addPoints(b) on one thread,
\* up to point_cloud_.clear()
SetPointsCall(c, b) ==
    /\ c_pc[c] = "idle"
    /\ nOps < MaxOps
    /\ nOps' = nOps + 1
    /\ ClearPositions(c)
    /\ c_batch' = [c_batch EXCEPT ![c] = b]
    /\ replaceBatch' = IF \A d \in Clients : c_pc[d] = "idle" THEN b ELSE NoBatch
    /\ UNCHANGED <<queueVars, gpuVars, window_should_close, r_pc, is_running_, w_pc,
                   workerLocals, pushed, queuedAtStop, lateFrom, stopDone>>
    /\ UNCHANGED extVars

ClearPointsColors_NoFlag(c, gl) ==
    /\ c_pc[c] = "clr_col"
    /\ point_colors_' = << >>
    /\ gpu_pos' = IF gl THEN << >> ELSE gpu_pos
    /\ gpu_col' = IF gl THEN << >> ELSE gpu_col
    /\ data_mutex_' = {}
    /\ c_pc' = [c_pc EXCEPT ![c] = IF c_batch[c] = NoBatch THEN "idle" ELSE "add_push"]
    /\ UNCHANGED <<queueVars, point_cloud_, data_updated_, window_should_close, r_pc,
                   is_running_, w_pc, workerLocals, c_batch, histVars>>
    /\ cleanSync' = FALSE
    /\ UNCHANGED extVars

\* point_colors_.clear(); data_updated_ = true; the two glBufferData(.., 0, ..)
\* calls; end of the lock_guard's scope; return.  The calling thread has no
\* current OpenGL context (init() made it current on the constructing thread):
\* gl is whether its GL calls reach the buffer objects.
ClearPointsColors(c, gl) ==
    /\ c_pc[c] = "clr_col"
    /\ point_colors_' = << >>
    /\ data_updated_' = TRUE
    /\ gpu_pos' = IF gl THEN << >> ELSE gpu_pos
    /\ gpu_col' = IF gl THEN << >> ELSE gpu_col
    /\ data_mutex_' = {}
    /\ c_pc' = [c_pc EXCEPT ![c] = IF c_batch[c] = NoBatch THEN "idle" ELSE "add_push"]
    /\ UNCHANGED <<queueVars, point_cloud_, window_should_close, r_pc, is_running_,
                   w_pc, workerLocals, c_batch, histVars>>
    /\ cleanSync' = FALSE
    /\ UNCHANGED extVars

\* --------------------------------------------------------- processData
\* while (is_running_)
WorkerLoopCheck ==
    /\ w_pc = "check_running"
    /\ w_pc' = IF is_running_ THEN "lock" ELSE "exited"
    /\ UNCHANGED <<queueVars, storeVars, gpuVars, window_should_close, r_pc,
                   is_running_, workerLocals, clientVars, histVars>>
    /\ UNCHANGED <<cleanSync, extVars>>

\* Mutant of WaitPredicate: the wait returns whatever the queue and the flag hold.
WaitPredicate_Always == TRUE

\* The predicate of queue_cond_var_.wait, evaluated with queue_mutex_ held
WaitPredicate == point_queue_ # << >> \/ ~is_running_

\* unique_lock lock(queue_mutex_), or the re-acquisition when wait(lock)
\* returns; then the predicate
WorkerLock ==
    /\ w_pc \in {"lock", "wake"}
    /\ queue_mutex_ = {}
    /\ queue_mutex_' = {Worker}
    /\ w_pc' = IF WaitPredicate THEN "inner" ELSE "block"
    /\ UNCHANGED <<point_queue_, storeVars, gpuVars, window_should_close, r_pc,
                   is_running_, workerLocals, clientVars, histVars>>
    /\ UNCHANGED <<cleanSync, extVars>>

\* wait(lock): release queue_mutex_ and block, atomically
WorkerBlock ==
    /\ w_pc = "block"
    /\ queue_mutex_' = {}
    /\ w_pc' = "waiting"
    /\ UNCHANGED <<point_queue_, storeVars, gpuVars, window_should_close, r_pc,
                   is_running_, workerLocals, clientVars, histVars>>
    /\ UNCHANGED <<cleanSync, extVars>>

\* a spurious wake-up, which condition_variable::wait permits
SpuriousWake ==
    /\ w_pc = "waiting"
    /\ w_pc' = "wake"
    /\ UNCHANGED <<queueVars, storeVars, gpuVars, window_should_close, r_pc,
                   is_running_, workerLocals, clientVars, histVars>>
    /\ UNCHANGED <<cleanSync, extVars>>

\* Mutant of WorkerInner: the worker takes the head batch and empties the queue.
WorkerInner_DropsQueue ==
    /\ w_pc = "inner"
    /\ IF point_queue_ # << >>
       THEN /\ positions' = Positions(Head(point_queue_))
            /\ colors' = Colors(Head(point_queue_))
            /\ point_queue_' = << >>
            /\ w_pc' = "data_lock"
       ELSE /\ UNCHANGED <<positions, colors, point_queue_>>
            /\ w_pc' = "check_running"
    /\ queue_mutex_' = {}
    /\ UNCHANGED <<storeVars, gpuVars, window_should_close, r_pc, is_running_,
                   clientVars, histVars>>
    /\ UNCHANGED <<cleanSync, extVars>>

\* Mutant of WorkerInner: lock.unlock() is missing, so the worker converts and
\* appends with queue_mutex_ held.
WorkerInner_KeepsLock ==
    /\ w_pc = "inner"
    /\ IF point_queue_ # << >>
       THEN /\ positions' = Positions(Head(point_queue_))
            /\ colors' = Colors(Head(point_queue_))
            /\ point_queue_' = Tail(point_queue_)
            /\ w_pc' = "data_lock"
            /\ UNCHANGED queue_mutex_
       ELSE /\ UNCHANGED <<positions, colors, point_queue_>>
            /\ w_pc' = "check_running"
            /\ queue_mutex_' = {}
    /\ UNCHANGED <<storeVars, gpuVars, window_should_close, r_pc, is_running_,
                   clientVars, histVars>>
    /\ UNCHANGED <<cleanSync, extVars>>

\* while (!point_queue_.empty()) { new_points = std::move(front()); pop();
\* lock.unlock(); the conversion loop of lines 1160-1171 ... }; when the queue
\* is empty, the end of the outer loop's body, which destroys the unique_lock
WorkerInner ==
    /\ w_pc = "inner"
    /\ IF point_queue_ # << >>
       THEN /\ positions' = Positions(Head(point_queue_))
            /\ colors' = Colors(Head(point_queue_))
            /\ point_queue_' = Tail(point_queue_)
            /\ w_pc' = "data_lock"
       ELSE /\ UNCHANGED <<positions, colors, point_queue_>>
            /\ w_pc' = "check_running"
    /\ queue_mutex_' = {}
    /\ UNCHANGED <<storeVars, gpuVars, window_should_close, r_pc, is_running_,
                   clientVars, histVars>>
    /\ UNCHANGED <<cleanSync, extVars>>

\* Mutant of WorkerInsertPositions: the positions are inserted without
\* data_mutex_.
WorkerInsertPositions_NoLock ==
    /\ w_pc = "data_lock"
    /\ point_cloud_' = point_cloud_ \o positions
    /\ w_pc' = "ins_col"
    /\ UNCHANGED <<queueVars, point_colors_, data_updated_, data_mutex_, gpuVars,
                   window_should_close, r_pc, is_running_, workerLocals, clientVars,
                   histVars>>
    /\ cleanSync' = FALSE
    /\ UNCHANGED extVars

\* Mutant of WorkerInsertPositions: the positions replace the stored ones.
WorkerInsertPositions_Overwrites ==
    /\ w_pc = "data_lock"
    /\ data_mutex_ = {}
    /\ data_mutex_' = {Worker}
    /\ point_cloud_' = positions
    /\ w_pc' = "ins_col"
    /\ UNCHANGED <<queueVars, point_colors_, data_updated_, gpuVars,
                   window_should_close, r_pc, is_running_, workerLocals, clientVars,
                   histVars>>
    /\ cleanSync' = FALSE
    /\ UNCHANGED extVars

\* lock_guard data_lock(data_mutex_); point_cloud_.insert(end(), positions...)
WorkerInsertPositions ==
    /\ w_pc = "data_lock"
    /\ data_mutex_ = {}
    /\ data_mutex_' = {Worker}
    /\ point_cloud_' = point_cloud_ \o positions
    /\ w_pc' = "ins_col"
    /\ UNCHANGED <<queueVars, point_colors_, data_updated_, gpuVars,
                   window_should_close, r_pc, is_running_, workerLocals, clientVars,
                   histVars>>
    /\ cleanSync' = FALSE
    /\ UNCHANGED extVars

\* Mutant of WorkerInsertColors: data_updated_ = true is missing.
WorkerInsertColors_NoFlag ==
    /\ w_pc = "ins_col"
    /\ point_colors_' = point_colors_ \o colors
    /\ data_mutex_' = {}
    /\ positions' = << >>
    /\ colors' = << >>
    /\ w_pc' = "relock"
    /\ UNCHANGED <<queueVars, point_cloud_, data_updated_, gpuVars,
                   window_should_close, r_pc, is_running_, clientVars, histVars>>
    /\ cleanSync' = FALSE
    /\ UNCHANGED extVars

\* Mutant of WorkerInsertColors: an empty batch does not set data_updated_.
WorkerInsertColors_SkipEmpty ==
    /\ w_pc = "ins_col"
    /\ point_colors_' = point_colors_ \o colors
    /\ data_updated_' = (data_updated_ \/ colors # << >>)
    /\ data_mutex_' = {}
    /\ positions' = << >>
    /\ colors' = << >>
    /\ w_pc' = "relock"
    /\ UNCHANGED <<queueVars, point_cloud_, gpuVars, window_should_close, r_pc,
                   is_running_, clientVars, histVars>>
    /\ cleanSync' = FALSE
    /\ UNCHANGED extVars

\* Mutant of WorkerInsertColors: data_lock's scope does not end, the worker
\* goes on to lock.lock() with data_mutex_ held.
WorkerInsertColors_HoldsDataLock ==
    /\ w_pc = "ins_col"
    /\ point_colors_' = point_colors_ \o colors
    /\ data_updated_' = TRUE
    /\ UNCHANGED data_mutex_
    /\ positions' = << >>
    /\ colors' = << >>
    /\ w_pc' = "relock"
    /\ UNCHANGED <<queueVars, point_cloud_, gpuVars, window_should_close, r_pc,
                   is_running_, clientVars, histVars>>
    /\ cleanSync' = FALSE
    /\ UNCHANGED extVars

\* point_colors_.insert(end(), colors...); data_updated_ = true; end of
\* data_lock's scope
WorkerInsertColors ==
    /\ w_pc = "ins_col"
    /\ point_colors_' = point_colors_ \o colors
    /\ data_updated_' = TRUE
    /\ data_mutex_' = {}
    /\ positions' = << >>
    /\ colors' = << >>
    /\ w_pc' = "relock"
    /\ UNCHANGED <<queueVars, point_cloud_, gpuVars, window_should_close, r_pc,
                   is_running_, clientVars, histVars>>
    /\ cleanSync' = FALSE
    /\ UNCHANGED extVars

\* lock.lock();
WorkerRelock ==
    /\ w_pc = "relock"
    /\ queue_mutex_ = {}
    /\ queue_mutex_' = {Worker}
    /\ w_pc' = "inner"
    /\ UNCHANGED <<point_queue_, storeVars, gpuVars, window_should_close, r_pc,
                   is_running_, workerLocals, clientVars, histVars>>
    /\ UNCHANGED <<cleanSync, extVars>>

\* ----------------------------------------------------------------- run
\* is_running_ = true;
RunStart ==
    /\ r_pc = "constructed"
    /\ is_running_' = TRUE
    /\ r_pc' = "spawn"
    /\ UNCHANGED <<queueVars, storeVars, gpuVars, window_should_close, w_pc,
                   workerLocals, clientVars, histVars>>
    /\ UNCHANGED <<cleanSync, extVars>>

\* std::thread data_thread(&PointCloudViewer::processData, this);
RunSpawn ==
    /\ r_pc = "spawn"
    /\ w_pc' = "check_running"
    /\ r_pc' = "loop"
    /\ UNCHANGED <<queueVars, storeVars, gpuVars, window_should_close, is_running_,
                   workerLocals, clientVars, histVars>>
    /\ UNCHANGED <<cleanSync, extVars>>

\* Mutant of RunLoopCheck: the loop condition does not test is_running_.
RunLoopCheck_IgnoresFlag(esc) ==
    /\ r_pc = "loop"
    /\ IF ~window_should_close
       THEN /\ window_should_close' = esc
            /\ r_pc' = "sync_check"
       ELSE /\ UNCHANGED window_should_close
            /\ r_pc' = "exit_flag"
    /\ UNCHANGED <<queueVars, storeVars, gpuVars, is_running_, w_pc, workerLocals,
                   clientVars, histVars>>
    /\ UNCHANGED <<cleanSync, extVars>>

\* while (!glfwWindowShouldClose(window_) && is_running_) { processInput(window_);
\* esc is whether GLFW_KEY_ESCAPE is down, which sets the window's close flag
RunLoopCheck(esc) ==
    /\ r_pc = "loop"
    /\ IF ~window_should_close /\ is_running_
       THEN /\ window_should_close' = esc
            /\ r_pc' = "sync_check"
       ELSE /\ UNCHANGED window_should_close
            /\ r_pc' = "exit_flag"
    /\ UNCHANGED <<queueVars, storeVars, gpuVars, is_running_, w_pc, workerLocals,
                   clientVars, histVars>>
    /\ UNCHANGED <<cleanSync, extVars>>

\* Mutant of RenderSyncCheck: render() goes on only when the worker is awake.
RenderSyncCheck_NeedsWorker ==
    /\ r_pc = "sync_check"
    /\ w_pc \notin {"block", "waiting"}
    /\ r_pc' = IF data_updated_ THEN "sync_lock" ELSE "draw"
    /\ UNCHANGED <<queueVars, storeVars, gpuVars, window_should_close, is_running_,
                   w_pc, workerLocals, clientVars, histVars>>
    /\ cleanSync' = (cleanSync \/ ~data_updated_)
    /\ UNCHANGED extVars

\* render(): if (data_updated_), read before data_mutex_ is taken
RenderSyncCheck ==
    /\ r_pc = "sync_check"
    /\ r_pc' = IF data_updated_ THEN "sync_lock" ELSE "draw"
    /\ UNCHANGED <<queueVars, storeVars, gpuVars, window_should_close, is_running_,
                   w_pc, workerLocals, clientVars, histVars>>
    /\ cleanSync' = (cleanSync \/ ~data_updated_)
    /\ UNCHANGED extVars

\* lock_guard lock(data_mutex_); glBindBuffer(vbo_);
\* glBufferData(point_cloud_.size() * sizeof(float), point_cloud_.data())
RenderUploadPositions ==
    /\ r_pc = "sync_lock"
    /\ data_mutex_ = {}
    /\ data_mutex_' = {Render}
    /\ gpu_pos' = point_cloud_
    /\ r_pc' = "up_col"
    /\ UNCHANGED <<queueVars, point_cloud_, point_colors_, data_updated_, gpu_col,
                   window_should_close, is_running_, w_pc, workerLocals, clientVars,
                   histVars>>
    /\ UNCHANGED <<cleanSync, extVars>>

RenderUploadColors_KeepsFlag ==
    /\ r_pc = "up_col"
    /\ gpu_col' = point_colors_
    /\ data_mutex_' = {}
    /\ r_pc' = "draw"
    /\ UNCHANGED <<queueVars, point_cloud_, point_colors_, data_updated_, gpu_pos,
                   window_should_close, is_running_, w_pc, workerLocals, clientVars,
                   histVars>>
    /\ cleanSync' = TRUE
    /\ UNCHANGED extVars

\* glBindBuffer(color_vbo_); glBufferData(point_colors_.size() * sizeof(float),
\* point_colors_.data()); data_updated_ = false; end of the lock_guard's scope
RenderUploadColors ==
    /\ r_pc = "up_col"
    /\ gpu_col' = point_colors_
    /\ data_updated_' = FALSE
    /\ data_mutex_' = {}
    /\ r_pc' = "draw"
    /\ UNCHANGED <<queueVars, point_cloud_, point_colors_, gpu_pos,
                   window_should_close, is_running_, w_pc, workerLocals, clientVars,
                   histVars>>
    /\ cleanSync' = TRUE
    /\ UNCHANGED extVars

\* framebuffer sizes that GLFW reports; a minimised window reports 0 x 0
FrameWidths == {0, 800, 1920}
FrameHeights == {0, 600, 1080}
\* the resize event that a glfwPollEvents() call delivers: none, or a size
NoResize == << >>
Resizes == {NoResize} \cup (FrameWidths \X FrameHeights)

\* framebuffer_size_callback(window, width, height): glViewport, setWidth,
\* setHeight
FramebufferSizeCallback(width, height) ==
    /\ width_' = width
    /\ height_' = height

\* The count that render() passes to glDrawArrays(GL_POINTS, 0, ...): it reads
\* point_cloud_.size() where the draw is issued, after the lock_guard's scope.
DrawCount == Len(point_cloud_) \div 3

\* The aspect ratio that render() passes to perspective(),
\* static_cast<float>(width_) / height_, as numerator and denominator.
Aspect == <<width_, height_>>

\* Mutant of RenderDraw: an error reported by glGetError() closes the window.
RenderDraw_ErrorCloses(close, err, resize) ==
    /\ r_pc = "draw"
    /\ window_should_close' = (window_should_close \/ close \/ err)
    /\ gl_error' = err
    /\ r_pc' = "loop"
    /\ UNCHANGED <<queueVars, storeVars, gpuVars, is_running_, w_pc, workerLocals,
                   clientVars, histVars>>
    /\ IF resize = NoResize
       THEN UNCHANGED windowVars
       ELSE FramebufferSizeCallback(resize[1], resize[2])
    /\ UNCHANGED <<cleanSync, loaderVars, cameraVars, mouseVars, resetDone>>

\* the rest of render(): glClear, perspective(fov_, Aspect, ..), the grid and
\* axes draws, glDrawArrays(GL_POINTS, 0, DrawCount), glfwSwapBuffers, then
\* glGetError(), whose error (err) is written to std::cerr; back in run(),
\* glfwPollEvents(): close is whether a window-close event was pending, resize
\* the framebuffer-size event it delivers
RenderDraw(close, err, resize) ==
    /\ r_pc = "draw"
    /\ window_should_close' = (window_should_close \/ close)
    /\ gl_error' = err
    /\ r_pc' = "loop"
    /\ UNCHANGED <<queueVars, storeVars, gpuVars, is_running_, w_pc, workerLocals,
                   clientVars, histVars>>
    /\ IF resize = NoResize
       THEN UNCHANGED windowVars
       ELSE FramebufferSizeCallback(resize[1], resize[2])
    /\ UNCHANGED <<cleanSync, loaderVars, cameraVars, mouseVars, resetDone>>

\* after the loop: is_running_ = false;
RunClearFlag ==
    /\ r_pc = "exit_flag"
    /\ ClearRunning
    /\ lateFrom' = Len(pushed)
    /\ r_pc' = "exit_notify"
    /\ UNCHANGED <<queueVars, storeVars, gpuVars, window_should_close, w_pc,
                   workerLocals, clientVars, nOps, pushed, mergedAtClear, stopDone,
                   replaceBatch>>
    /\ UNCHANGED <<cleanSync, extVars>>

\* queue_cond_var_.notify_one();
RunNotify ==
    /\ r_pc = "exit_notify"
    /\ w_pc' = NotifyOne(w_pc)
    /\ r_pc' = "join"
    /\ UNCHANGED <<queueVars, storeVars, gpuVars, window_should_close, is_running_,
                   workerLocals, clientVars, histVars>>
    /\ UNCHANGED <<cleanSync, extVars>>

\* Mutant of RunJoin: run() returns without waiting for the worker.
RunJoin_NoWait ==
    /\ r_pc = "join"
    /\ r_pc' = "returned"
    /\ UNCHANGED <<queueVars, storeVars, gpuVars, window_should_close, is_running_,
                   w_pc, workerLocals, clientVars, histVars>>
    /\ UNCHANGED <<cleanSync, extVars>>

\* if (data_thread.joinable()) data_thread.join(); run() returns
RunJoin ==
    /\ r_pc = "join"
    /\ w_pc = "exited"
    /\ r_pc' = "returned"
    /\ UNCHANGED <<queueVars, storeVars, gpuVars, window_should_close, is_running_,
                   w_pc, workerLocals, clientVars, histVars>>
    /\ UNCHANGED <<cleanSync, extVars>>

\* ------------------------------------------------------ specification
WorkerStep ==
    \/ WorkerLoopCheck
    \/ WorkerLock
    \/ WorkerBlock
    \/ WorkerInner
    \/ WorkerInsertPositions
    \/ WorkerInsertColors
    \/ WorkerRelock

RenderStep ==
    \/ RunStart
    \/ RunSpawn
    \/ \E esc \in BOOLEAN : RunLoopCheck(esc)
    \/ RenderSyncCheck
    \/ RenderUploadPositions
    \/ RenderUploadColors
    \/ \E close \in BOOLEAN : RenderDraw(close, FALSE, NoResize)
    \/ RunClearFlag
    \/ RunNotify
    \/ RunJoin

\* Clients call addPoints, clearPoints and stop, in any order and at any time
\* after construction.
Next ==
    \/ \E c \in Clients, b \in Batches : AddPointsCall(c, b)
    \/ \E c \in Clients : AddPointsNotify(c)
    \/ \E c \in Clients : ClearPointsCall(c)
    \/ \E c \in Clients, gl \in BOOLEAN : ClearPointsColors(c, gl)
    \/ \E c \in Clients : StopCall(c)
    \/ \E c \in Clients : StopNotify(c)
    \/ WorkerStep
    \/ SpuriousWake
    \/ RenderStep

Spec == Init /\ [][Next]_vars

\* ------------------------------------------------- main.cpp's loader
\* bool isRunning() const { return is_running_; }
isRunning == is_running_

\* the i-th batch of the file, i counted from 1
LoaderBatch(i) == IF i % 2 = 1 THEN <<PointB, PointA>> ELSE <<PointA>>

\* for (size_t i = 0; i < batches && viewer.isRunning(); ++i)
LoaderCheck ==
    /\ l_pc = "check"
    /\ l_pc' = IF l_sent < LoaderBatches /\ isRunning THEN "add" ELSE "done"
    /\ UNCHANGED <<queueVars, storeVars, gpuVars, window_should_close, r_pc,
                   is_running_, w_pc, workerLocals, clientVars, histVars, cleanSync,
                   l_sent, cameraVars, mouseVars, resetDone,
                   windowVars, gl_error>>

\* viewer.addPoints(batch), up to the end of the lock_guard's scope
LoaderAdd ==
    /\ l_pc = "add"
    /\ Enqueue(LoaderBatch(l_sent + 1))
    /\ l_pc' = "notify"
    /\ UNCHANGED <<storeVars, gpuVars, window_should_close, r_pc, is_running_, w_pc,
                   workerLocals, clientVars, nOps, mergedAtClear, queuedAtStop,
                   lateFrom, stopDone, replaceBatch, cleanSync, l_sent, cameraVars,
                   mouseVars, resetDone, windowVars, gl_error>>

\* queue_cond_var_.notify_one(); return from addPoints; the sleep; ++i
LoaderNotify ==
    /\ l_pc = "notify"
    /\ w_pc' = NotifyOne(w_pc)
    /\ l_sent' = l_sent + 1
    /\ l_pc' = "check"
    /\ UNCHANGED <<queueVars, storeVars, gpuVars, window_should_close, r_pc,
                   is_running_, workerLocals, clientVars, histVars, cleanSync,
                   cameraVars, mouseVars, resetDone,
                   windowVars, gl_error>>

LoaderStep ==
    \/ LoaderCheck
    \/ LoaderAdd
    \/ LoaderNotify

\* main(): the viewer is constructed, the loader thread is started, then
\* run() is called on the constructing thread.  Nothing calls stop().
LoaderNext ==
    \/ LoaderStep
    \/ WorkerStep
    \/ SpuriousWake
    \/ RenderStep

LoaderSpec == Init /\ [][LoaderNext]_vars

\* ------------------------------------------------- frames of main()
\* the end of main(): loader_thread.join(), then the viewer's destructor calls
\* cleanup(), which deletes the buffer objects and destroys the window
MainCleanup ==
    /\ r_pc = "returned"
    /\ l_pc = "done"
    /\ gpu_pos' = << >>
    /\ gpu_col' = << >>
    /\ r_pc' = "destroyed"
    /\ UNCHANGED <<queueVars, storeVars, window_should_close, is_running_, w_pc,
                   workerLocals, clientVars, histVars, cleanSync, extVars>>

\* main() with a user at the window: frames may report a GL error, the
\* framebuffer may be resized, and main returns after run().
FrameNext ==
    \/ LoaderStep
    \/ WorkerStep
    \/ SpuriousWake
    \/ RenderStep
    \/ \E close \in BOOLEAN, err \in BOOLEAN, resize \in Resizes :
            RenderDraw(close, err, resize)
    \/ MainCleanup

FrameSpec == Init /\ [][FrameNext]_vars

\* ------------------------------------------------ camera and input
\* Keys that processInput() polls, by the first GLFW key of each test; the
\* grid rotation keys (Q E Z X C V) are never down.
Keys == {"LEFT", "RIGHT", "UP", "DOWN", "F1", "R", "ESCAPE"}
KeySets ==
    {{}} \cup {{k} : k \in Keys} \cup {{"LEFT", "R"}, {"UP", "DOWN"}, {"F1", "RIGHT"}}

\* delta_time(), in milliseconds
FrameTimes == {20}
MaxFrameTime == CHOOSE t \in FrameTimes : \A u \in FrameTimes : u <= t

\* cursor positions and scroll offsets that GLFW reports
MouseXs == {0, 3600}
MouseYs == {0, 1080}
ScrollYs == {-400, 100, 400}

Abs(x) == IF x < 0 THEN -x ELSE x

\* Mutant of Clamp: the lower limit is not applied.
Clamp_UpperOnly(v, lo, hi) == IF hi < v THEN hi ELSE v

\* std::clamp(v, lo, hi)
Clamp(v, lo, hi) == IF v < lo THEN lo ELSE IF hi < v THEN hi ELSE v

\* the construction-time values of the camera fields
CameraAtDefaults ==
    /\ target_ = <<0, 0, 0>>
    /\ distance_ = INITIAL_DISTANCE
    /\ azimuth_ = INITIAL_AZIMUTH
    /\ elevation_ = INITIAL_ELEVATION
    /\ pan_x_ = 0
    /\ pan_y_ = 0
    /\ fov_ = INITIAL_FOV

\* Mutant of resetCamera: the pan offset is not reset.
resetCamera_KeepsPan(px, py) ==
    /\ target_' = <<0, 0, 0>>
    /\ distance_' = INITIAL_DISTANCE
    /\ azimuth_' = INITIAL_AZIMUTH
    /\ elevation_' = INITIAL_ELEVATION
    /\ pan_x_' = px
    /\ pan_y_' = py

\* resetCamera(), called when pan_x_ and pan_y_ hold px and py
resetCamera(px, py) ==
    /\ target_' = <<0, 0, 0>>
    /\ distance_' = INITIAL_DISTANCE
    /\ azimuth_' = INITIAL_AZIMUTH
    /\ elevation_' = INITIAL_ELEVATION
    /\ pan_x_' = 0
    /\ pan_y_' = 0

\* Mutant of ProcessInput: the F1 toggle is not debounced, the mode flips in
\* every frame that finds the key down.
ProcessInput_NoDebounce(dt, keys) ==
    LET pan_speed == PAN_SPEED * dt
        px == pan_x_ - (IF "LEFT" \in keys THEN pan_speed ELSE 0)
                     + (IF "RIGHT" \in keys THEN pan_speed ELSE 0)
        py == pan_y_ + (IF "UP" \in keys THEN pan_speed ELSE 0)
                     - (IF "DOWN" \in keys THEN pan_speed ELSE 0)
        toggles == "F1" \in keys
    IN  /\ Abs(px) <= MaxPanSteps * PAN_SPEED * MaxFrameTime
        /\ Abs(py) <= MaxPanSteps * PAN_SPEED * MaxFrameTime
        /\ cursor_captured_' = IF toggles THEN ~cursor_captured_ ELSE cursor_captured_
        /\ first_mouse_' = IF toggles /\ ~cursor_captured_ THEN TRUE ELSE first_mouse_
        /\ toggle_pressed_' = ("F1" \in keys)
        /\ f1_down' = ("F1" \in keys)
        /\ IF "R" \in keys
           THEN resetCamera(px, py)
           ELSE /\ pan_x_' = px
                /\ pan_y_' = py
                /\ UNCHANGED <<target_, distance_, azimuth_, elevation_>>
        /\ resetDone' = /\ "R" \in keys
                        /\ distance_ # INITIAL_DISTANCE
                        /\ azimuth_ # INITIAL_AZIMUTH
                        /\ elevation_ # INITIAL_ELEVATION
                        /\ px # 0
        /\ window_should_close' = (window_should_close \/ "ESCAPE" \in keys)
        /\ UNCHANGED <<fov_, last_x_, last_y_>>
        /\ UNCHANGED <<queueVars, storeVars, gpuVars, r_pc, is_running_, w_pc,
                       workerLocals, clientVars, histVars, cleanSync, loaderVars,
                       windowVars, gl_error>>

\* processInput(window), with dt the frame time and keys the keys that are
\* down: what it does to the fields of the viewer
processInput(dt, keys) ==
    LET pan_speed == PAN_SPEED * dt
        px == pan_x_ - (IF "LEFT" \in keys THEN pan_speed ELSE 0)
                     + (IF "RIGHT" \in keys THEN pan_speed ELSE 0)
        py == pan_y_ + (IF "UP" \in keys THEN pan_speed ELSE 0)
                     - (IF "DOWN" \in keys THEN pan_speed ELSE 0)
        toggles == "F1" \in keys /\ ~toggle_pressed_
    IN  /\ Abs(px) <= MaxPanSteps * PAN_SPEED * MaxFrameTime
        /\ Abs(py) <= MaxPanSteps * PAN_SPEED * MaxFrameTime
        /\ cursor_captured_' = IF toggles THEN ~cursor_captured_ ELSE cursor_captured_
        /\ first_mouse_' = IF toggles /\ ~cursor_captured_ THEN TRUE ELSE first_mouse_
        /\ toggle_pressed_' = ("F1" \in keys)
        /\ f1_down' = ("F1" \in keys)
        /\ IF "R" \in keys
           THEN resetCamera(px, py)
           ELSE /\ pan_x_' = px
                /\ pan_y_' = py
                /\ UNCHANGED <<target_, distance_, azimuth_, elevation_>>
        /\ resetDone' = /\ "R" \in keys
                        /\ distance_ # INITIAL_DISTANCE
                        /\ azimuth_ # INITIAL_AZIMUTH
                        /\ elevation_ # INITIAL_ELEVATION
                        /\ px # 0
        /\ window_should_close' = (window_should_close \/ "ESCAPE" \in keys)
        /\ UNCHANGED <<fov_, last_x_, last_y_>>

\* a processInput(window) call, taken by itself
ProcessInput(dt, keys) ==
    /\ processInput(dt, keys)
    /\ UNCHANGED <<queueVars, storeVars, gpuVars, r_pc, is_running_, w_pc,
                   workerLocals, clientVars, histVars, cleanSync, loaderVars,
                   windowVars, gl_error>>

\* Mutant of MouseCallback: the sample orbits whether or not the cursor is
\* captured.
MouseCallback_IgnoresCapture(xpos, ypos) ==
    /\ IF first_mouse_
       THEN /\ last_x_' = xpos
            /\ last_y_' = ypos
            /\ first_mouse_' = FALSE
            /\ UNCHANGED <<azimuth_, elevation_>>
       ELSE LET xoffset == (xpos - last_x_) * CAMERA_SENSITIVITY
                yoffset == (last_y_ - ypos) * CAMERA_SENSITIVITY
            IN  /\ Abs(azimuth_ + xoffset) <= MaxAzimuth
                /\ last_x_' = xpos
                /\ last_y_' = ypos
                /\ azimuth_' = azimuth_ + xoffset
                /\ elevation_' = Clamp(elevation_ + yoffset, -ELEVATION_LIMIT,
                                       ELEVATION_LIMIT)
                /\ UNCHANGED first_mouse_
    /\ resetDone' = FALSE
    /\ UNCHANGED <<target_, distance_, pan_x_, pan_y_, fov_, cursor_captured_,
                   toggle_pressed_, f1_down, window_should_close>>
    /\ UNCHANGED <<queueVars, storeVars, gpuVars, r_pc, is_running_, w_pc,
                   workerLocals, clientVars, histVars, cleanSync, loaderVars,
                   windowVars, gl_error>>

\* Mutant of MouseCallback: elevation_ is not clamped.
MouseCallback_NoClamp(xpos, ypos) ==
    /\ IF ~cursor_captured_
       THEN UNCHANGED <<last_x_, last_y_, first_mouse_, azimuth_, elevation_>>
       ELSE IF first_mouse_
       THEN /\ last_x_' = xpos
            /\ last_y_' = ypos
            /\ first_mouse_' = FALSE
            /\ UNCHANGED <<azimuth_, elevation_>>
       ELSE LET xoffset == (xpos - last_x_) * CAMERA_SENSITIVITY
                yoffset == (last_y_ - ypos) * CAMERA_SENSITIVITY
            IN  /\ Abs(azimuth_ + xoffset) <= MaxAzimuth
                /\ last_x_' = xpos
                /\ last_y_' = ypos
                /\ azimuth_' = azimuth_ + xoffset
                /\ elevation_' = elevation_ + yoffset
                /\ UNCHANGED first_mouse_
    /\ resetDone' = FALSE
    /\ UNCHANGED <<target_, distance_, pan_x_, pan_y_, fov_, cursor_captured_,
                   toggle_pressed_, f1_down, window_should_close>>
    /\ UNCHANGED <<queueVars, storeVars, gpuVars, r_pc, is_running_, w_pc,
                   workerLocals, clientVars, histVars, cleanSync, loaderVars,
                       windowVars, gl_error>>

\* mouse_callback(xpos, ypos): what it does to the fields of the viewer
mouse_callback(xpos, ypos) ==
    /\ IF ~cursor_captured_
       THEN UNCHANGED <<last_x_, last_y_, first_mouse_, azimuth_, elevation_>>
       ELSE IF first_mouse_
       THEN /\ last_x_' = xpos
            /\ last_y_' = ypos
            /\ first_mouse_' = FALSE
            /\ UNCHANGED <<azimuth_, elevation_>>
       ELSE LET xoffset == (xpos - last_x_) * CAMERA_SENSITIVITY
                yoffset == (last_y_ - ypos) * CAMERA_SENSITIVITY
            IN  /\ Abs(azimuth_ + xoffset) <= MaxAzimuth
                /\ last_x_' = xpos
                /\ last_y_' = ypos
                /\ azimuth_' = azimuth_ + xoffset
                /\ elevation_' = Clamp(elevation_ + yoffset,
                                       -ELEVATION_LIMIT, ELEVATION_LIMIT)
                /\ UNCHANGED first_mouse_
    /\ resetDone' = FALSE
    /\ UNCHANGED <<target_, distance_, pan_x_, pan_y_, fov_, cursor_captured_,
                   toggle_pressed_, f1_down>>

\* a cursor-position event, taken by itself
MouseCallback(xpos, ypos) ==
    /\ mouse_callback(xpos, ypos)
    /\ UNCHANGED window_should_close
    /\ UNCHANGED <<queueVars, storeVars, gpuVars, r_pc, is_running_, w_pc,
                   workerLocals, clientVars, histVars, cleanSync, loaderVars,
                   windowVars, gl_error>>

\* scroll_callback(yoffset): what it does to the fields of the viewer
scroll_callback(yoffset) ==
    /\ distance_' = Clamp(distance_ - yoffset * ZOOM_SPEED, MIN_DISTANCE, MAX_DISTANCE)
    /\ resetDone' = FALSE
    /\ UNCHANGED <<target_, azimuth_, elevation_, pan_x_, pan_y_, fov_, mouseVars>>

\* a scroll event, taken by itself
ScrollCallback(yoffset) ==
    /\ scroll_callback(yoffset)
    /\ UNCHANGED window_should_close
    /\ UNCHANGED <<queueVars, storeVars, gpuVars, r_pc, is_running_, w_pc,
                   workerLocals, clientVars, histVars, cleanSync, loaderVars,
                   windowVars, gl_error>>

\* The handlers the render thread runs for the user's input: processInput()
\* once a frame, the cursor and scroll callbacks from glfwPollEvents().
CameraNext ==
    \/ \E dt \in FrameTimes, keys \in KeySets : ProcessInput(dt, keys)
    \/ \E xpos \in MouseXs, ypos \in MouseYs : MouseCallback(xpos, ypos)
    \/ \E yoffset \in ScrollYs : ScrollCallback(yoffset)

CameraSpec == Init /\ [][CameraNext]_vars

\* ------------------------------------------- the frame with its input
\* The keys, the frame time and the events of the frames below.
InputKeySets == {{"F1"}, {"R"}, {"LEFT"}}
NoEvent == <<"none">>
InputEvents ==
    {NoEvent, <<"cursor", 0, 0>>, <<"cursor", 3600, 1080>>, <<"scroll", 100>>}

\* the thread that calls addPoints and clearPoints in the frames below
InputClient == CHOOSE c \in Clients : TRUE

\* run()'s loop condition holding, and the processInput(window_) call
RunProcessInput(dt, keys) ==
    /\ r_pc = "loop"
    /\ ~window_should_close
    /\ is_running_
    /\ processInput(dt, keys)
    /\ r_pc' = "sync_check"
    /\ UNCHANGED <<queueVars, storeVars, gpuVars, is_running_, w_pc, workerLocals,
                   clientVars, histVars, cleanSync, loaderVars, windowVars, gl_error>>

\* Mutant of RenderPresent: the draw re-centres the camera.
RenderPresent_Recentres ==
    /\ r_pc = "draw"
    /\ r_pc' = "poll"
    /\ resetCamera(pan_x_, pan_y_)
    /\ UNCHANGED <<queueVars, storeVars, gpuVars, window_should_close, is_running_,
                   w_pc, workerLocals, clientVars, histVars>>
    /\ UNCHANGED <<cleanSync, loaderVars, fov_, mouseVars, resetDone, windowVars,
                   gl_error>>

\* render() from its glClear to its glGetError: the view and projection
\* matrices, the grid, axes and point draws, glfwSwapBuffers
RenderPresent ==
    /\ r_pc = "draw"
    /\ r_pc' = "poll"
    /\ UNCHANGED <<queueVars, storeVars, gpuVars, window_should_close, is_running_,
                   w_pc, workerLocals, clientVars, histVars>>
    /\ UNCHANGED <<cleanSync, extVars>>

\* glfwPollEvents() at the end of the loop's body, which calls the cursor
\* position or the scroll callback for the event that is pending
PollEvents(event) ==
    /\ r_pc = "poll"
    /\ r_pc' = "loop"
    /\ CASE event[1] = "cursor" -> mouse_callback(event[2], event[3])
         [] event[1] = "scroll" -> scroll_callback(event[2])
         [] OTHER -> UNCHANGED <<cameraVars, mouseVars, resetDone>>
    /\ UNCHANGED <<queueVars, storeVars, gpuVars, window_should_close, is_running_,
                   w_pc, workerLocals, clientVars, histVars>>
    /\ UNCHANGED <<cleanSync, loaderVars, windowVars, gl_error>>

\* The frames of a window that stays open, with the user's keys, cursor and
\* scroll wheel, while one thread calls addPoints and clearPoints.
InputNext ==
    \/ AddPointsCall(InputClient, <<PointA>>)
    \/ AddPointsNotify(InputClient)
    \/ ClearPointsCall(InputClient)
    \/ \E gl \in BOOLEAN : ClearPointsColors(InputClient, gl)
    \/ WorkerStep
    \/ SpuriousWake
    \/ RunStart
    \/ RunSpawn
    \/ \E dt \in FrameTimes, keys \in InputKeySets : RunProcessInput(dt, keys)
    \/ RenderSyncCheck
    \/ RenderUploadPositions
    \/ RenderUploadColors
    \/ RenderPresent
    \/ \E event \in InputEvents : PollEvents(event)

InputSpec == Init /\ [][InputNext]_vars

\* Clients call addPoints and the replace operation.
ReplaceNext ==
    \/ \E c \in Clients, b \in Batches : AddPointsCall(c, b)
    \/ \E c \in Clients, b \in Batches : SetPointsCall(c, b)
    \/ \E c \in Clients, gl \in BOOLEAN : ClearPointsColors(c, gl)
    \/ \E c \in Clients : AddPointsPush(c)
    \/ \E c \in Clients : AddPointsNotify(c)
    \/ WorkerStep
    \/ SpuriousWake
    \/ RenderStep

ReplaceSpec == Init /\ [][ReplaceNext]_vars

\* Shutdown: clients call addPoints with a one-point batch and stop.
ClientShutdownStep(c) ==
    \/ AddPointsNotify(c)
    \/ StopNotify(c)

ShutdownNext ==
    \/ \E c \in Clients : AddPointsCall(c, <<PointA>>)
    \/ \E c \in Clients : StopCall(c)
    \/ \E c \in Clients : ClientShutdownStep(c)
    \/ WorkerStep
    \/ SpuriousWake
    \/ RenderStep

\* Every thread that can take a step of the call it is in eventually takes it.
\* Nothing obliges a client to begin a call, the user to close the window, or
\* the condition variable to wake spuriously.
FairSpec ==
    /\ Init /\ [][ShutdownNext]_vars
    /\ WF_vars(WorkerStep)
    /\ WF_vars(RenderStep)
    /\ \A c \in Clients : WF_vars(ClientShutdownStep(c))

\* ------------------------------------------------------------ helpers
RECURSIVE AllPositions(_)
AllPositions(bs) ==
    IF bs = << >> THEN << >> ELSE Positions(Head(bs)) \o AllPositions(Tail(bs))

RECURSIVE AllColors(_)
AllColors(bs) ==
    IF bs = << >> THEN << >> ELSE Colors(Head(bs)) \o AllColors(Tail(bs))

RECURSIVE TotalPoints(_)
TotalPoints(bs) ==
    IF bs = << >> THEN 0 ELSE Len(Head(bs)) + TotalPoints(Tail(bs))

\* The queue is empty and the worker holds no batch it has yet to append.
Quiescent == point_queue_ = << >> /\ ~WorkerHoldsBatch

\* No clearPoints has discarded a merged batch (in particular: no clearPoints).
NothingDiscarded == mergedAtClear = 0

\* ------------------------------------------------------------- claims

\* C1: no loss, no duplication.  With no clearPoints, once the queue is empty
\* and the worker is idle, the Store holds as many points as all pushed
\* batches together, in positions and in colors.
C1_NoLossNoDuplication ==
    (Quiescent /\ NothingDiscarded) =>
        /\ Len(point_cloud_) = 3 * TotalPoints(pushed)
        /\ Len(point_colors_) = 3 * TotalPoints(pushed)

C1_Witness ==
    /\ Quiescent
    /\ NothingDiscarded
    /\ Len(pushed) = 3
    /\ TotalPoints(pushed) >= 4
    /\ Len(point_cloud_) = 3 * TotalPoints(pushed)
    /\ is_running_

\* C2: FIFO merge order.  Whenever no writer is inside the Store's critical
\* section, the Store is the concatenation, in push order and each batch in
\* its own order, of the batches merged since the Store was last emptied; so
\* after a drain with no clearPoints it is the concatenation of all pushed
\* batches.
C2_FifoMergeOrder ==
    (data_mutex_ \subseteq {Render}) =>
        /\ point_cloud_ = AllPositions(SubSeq(pushed, mergedAtClear + 1, NumMerged))
        /\ point_colors_ = AllColors(SubSeq(pushed, mergedAtClear + 1, NumMerged))

\* batches of sizes 2, 0, 1: three points, the first two from batch 1
C2_Witness ==
    /\ Quiescent
    /\ NothingDiscarded
    /\ pushed = << <<PointB, PointA>>, << >>, <<PointA>> >>
    /\ point_cloud_ = <<4, 5, 6, 1, 2, 3, 1, 2, 3>>
    /\ point_colors_ = <<0, 1000, 1000, 1000, 0, 200, 1000, 0, 200>>

\* C3: no lost update.  Whenever data_updated_ is false and nobody holds
\* data_mutex_, the GPU buffers hold exactly the Store's current contents.
C3_NoLostUpdate ==
    (~data_updated_ /\ data_mutex_ = {}) =>
        /\ gpu_pos = point_cloud_
        /\ gpu_col = point_colors_

\* an upload that ran while the worker was waiting to append the next batch
C3_Witness ==
    /\ ~data_updated_
    /\ data_mutex_ = {}
    /\ Len(gpu_pos) >= 3
    /\ gpu_pos = point_cloud_
    /\ w_pc = "data_lock"
    /\ r_pc = "draw"

\* C6: parallel sequences.  Whenever no writer holds data_mutex_, positions and
\* colors have the same length, a multiple of 3; and outside render()'s upload
\* the two GPU buffers, which are what the render thread read, agree in length.
C6_ParallelSequences ==
    /\ (data_mutex_ \subseteq {Render}) =>
           /\ Len(point_cloud_) = Len(point_colors_)
           /\ Len(point_cloud_) % 3 = 0
    /\ (r_pc # "up_col") => Len(gpu_pos) = Len(gpu_col)

\* the render thread is inside its snapshot while the worker waits to append
C6_Witness ==
    /\ data_mutex_ = {Render}
    /\ Len(point_cloud_) >= 3
    /\ w_pc = "data_lock"
    /\ Len(positions) >= 3

\* C9: addPoints never blocks on the rest of the system.  addPoints takes only
\* queue_mutex_; whoever holds queue_mutex_ is the worker between its lock and
\* its wait or pop, holds no other mutex, and can release it by a step of its
\* own.
C9_AddPointsNeverBlocks ==
    /\ queue_mutex_ \subseteq {Worker}
    /\ (queue_mutex_ = {Worker}) =>
           /\ w_pc \in {"block", "inner"}
           /\ Worker \notin data_mutex_
           /\ ENABLED (WorkerBlock \/ WorkerInner)
    /\ \A c \in Clients : c_pc[c] = "add_notify" => c \notin data_mutex_

\* a push completes while the render thread uploads and the worker waits for
\* data_mutex_
C9_Witness ==
    /\ \E c \in Clients : c_pc[c] = "add_notify"
    /\ data_mutex_ = {Render}
    /\ w_pc = "data_lock"
    /\ Len(point_queue_) >= 1

\* C4 (as claimed): once run() has cleared the running flag and signalled the
\* condition variable, the worker eventually leaves processData.
C4_WorkerTerminates == (r_pc = "join") ~> (w_pc = "exited")

\* C5 (as claimed): after a stop() call has returned, run() eventually returns
\* with the running flag false.
C5_StopTerminates == stopDone ~> (r_pc = "returned" /\ ~is_running_)

\* C7 (as claimed): when the worker has exited, every batch (with points in
\* it) that was in the queue when the running flag went from true to false has
\* been merged.
C7_QueuedBatchesDrained ==
    (w_pc = "exited") =>
        \A i \in 1..queuedAtStop : pushed[i] # << >> => i <= NumMerged

\* C8 (as claimed): no batch (with points in it) that is pushed after run()
\* cleared the running flag is merged into the Store.
C8_LateBatchNotMerged ==
    (lateFrom >= 0) =>
        \A i \in (lateFrom + 1)..Len(pushed) : pushed[i] # << >> => i > NumMerged

\* C10 (as claimed): after a replace that no other push or clear overlaps or
\* follows, once the queue is drained and the render loop has taken its
\* snapshot, the Store holds exactly the new batch's points.
C10_ReplaceLeavesOnlyNewBatch ==
    (/\ replaceBatch # NoBatch
     /\ \A c \in Clients : c_pc[c] = "idle"
     /\ Quiescent
     /\ data_mutex_ = {}
     /\ ~data_updated_) =>
        Len(point_cloud_) = 3 * Len(replaceBatch)

\* ------------------------------------------------------------------- C11
\* C11: when a synchronisation step of render() has completed and no append
\* or clear has run since, the next synchronisation step goes straight to
\* drawing: it uploads nothing, and the GPU buffers and data_updated_ are
\* what they were.
C11_SecondSyncIsNoOp ==
    [][(r_pc = "sync_check" /\ cleanSync /\ r_pc' # "sync_check")
          => (r_pc' = "draw" /\ UNCHANGED <<gpu_pos, gpu_col, data_updated_>>)]_vars

\* a second synchronisation step is about to run on buffers that hold points
C11_Witness ==
    /\ r_pc = "sync_check"
    /\ cleanSync
    /\ gpu_pos # << >>
    /\ gpu_pos = point_cloud_
    /\ gpu_col = point_colors_

\* ------------------------------------------------------------------- C12
\* C12: data_updated_ is true when an append or a clear leaves its critical
\* section on data_mutex_, and it goes from true to false only in the step of
\* render() that holds data_mutex_ and completes the upload of both buffers.
C12_FlagDiscipline ==
    [][/\ (data_mutex_ # {} /\ data_mutex_ # {Render} /\ data_mutex_' = {})
            => data_updated_'
       /\ (data_updated_ /\ ~data_updated_')
            => /\ r_pc = "up_col"
               /\ data_mutex_ = {Render}
               /\ gpu_pos = point_cloud_
               /\ gpu_col' = point_colors_]_vars

\* render() has cleared the flag after uploading a store that a clear and an
\* append have both written
C12_Witness ==
    /\ r_pc = "draw"
    /\ ~data_updated_
    /\ mergedAtClear > 0
    /\ point_cloud_ # << >>
    /\ gpu_pos = point_cloud_

\* ------------------------------------------------------------------- C13
\* the worker's two insert steps for a batch of size 0
EmptyInsertPositions == w_pc = "data_lock" /\ positions = << >> /\ w_pc' = "ins_col"
EmptyInsertColors == w_pc = "ins_col" /\ colors = << >> /\ w_pc' = "relock"

\* C13 as stated: merging an empty batch leaves point_cloud_, point_colors_
\* and data_updated_ as they were.
C13_EmptyBatchNoOp ==
    [][(EmptyInsertPositions \/ EmptyInsertColors)
          => UNCHANGED <<point_cloud_, point_colors_, data_updated_>>]_vars

\* C13 amended: merging an empty batch leaves point_cloud_ and point_colors_
\* as they were, and sets data_updated_ like any other append.
C13_EmptyBatchKeepsStore ==
    [][/\ (EmptyInsertPositions \/ EmptyInsertColors)
            => UNCHANGED <<point_cloud_, point_colors_>>
       /\ EmptyInsertColors => data_updated_']_vars

\* an empty batch has just been merged: the flag is set although the GPU
\* buffers already hold the whole store
C13_Witness ==
    /\ w_pc = "relock"
    /\ data_updated_
    /\ NothingDiscarded
    /\ point_cloud_ # << >>
    /\ gpu_pos = point_cloud_
    /\ gpu_col = point_colors_

\* ------------------------------------------------------------------- C19
\* C19: the worker passes its condition wait only when the queue is non-empty
\* or is_running_ is false; the queue loses elements only by the worker, one
\* at a time, from the front, with queue_mutex_ held and the queue non-empty,
\* and the batch the worker then converts is the one that was at the head.
C19_BlockingDequeue ==
    [][/\ (w_pc \in {"lock", "wake"} /\ w_pc' = "inner")
            => (point_queue_ # << >> \/ ~is_running_)
       /\ (Len(point_queue_') < Len(point_queue_)
              \/ (w_pc # "data_lock" /\ w_pc' = "data_lock"))
            => /\ w_pc = "inner"
               /\ w_pc' = "data_lock"
               /\ queue_mutex_ = {Worker}
               /\ point_queue_ # << >>
               /\ point_queue_' = Tail(point_queue_)
               /\ positions' = Positions(Head(point_queue_))
               /\ colors' = Colors(Head(point_queue_))]_vars

\* the worker has popped the head of a queue of two batches
C19_Witness ==
    /\ w_pc = "data_lock"
    /\ positions = Positions(pushed[1])
    /\ positions # << >>
    /\ Len(pushed) >= 2
    /\ point_queue_ = <<pushed[2]>>

\* ------------------------------------------------------------------- C20
IsPrefix(s, t) == Len(s) <= Len(t) /\ SubSeq(t, 1, Len(s)) = s

\* the two steps of a clearPoints() call
ClearBegins == \E c \in Clients : c_pc[c] # "clr_col" /\ c_pc'[c] = "clr_col"
ClearEnds == \E c \in Clients : c_pc[c] = "clr_col" /\ c_pc'[c] # "clr_col"

\* C20: a step that is not part of clearPoints keeps what point_cloud_ and
\* point_colors_ hold as a prefix of what they hold afterwards, so the point
\* count never decreases; clearPoints leaves both empty and data_updated_
\* true.
C20_AppendOnlyStore ==
    [][/\ ~ClearBegins => IsPrefix(point_cloud_, point_cloud_')
       /\ ~ClearEnds => IsPrefix(point_colors_, point_colors_')
       /\ ClearBegins => point_cloud_' = << >>
       /\ ClearEnds => /\ point_cloud_' = << >>
                       /\ point_colors_' = << >>
                       /\ data_updated_']_vars

\* two non-empty batches were appended one after the other, then a
\* clearPoints() call emptied the store
C20_Witness ==
    /\ Len(pushed) = 2
    /\ pushed[1] # << >>
    /\ pushed[2] # << >>
    /\ mergedAtClear = 2
    /\ \A c \in Clients : c_pc[c] = "idle"
    /\ point_cloud_ = << >>
    /\ point_colors_ = << >>
    /\ data_updated_

\* ------------------------------------------------------------------- C14
\* C14: a loader thread started right after construction, before run(), has
\* passed every batch of its file to addPoints when it leaves its loop,
\* unless the window was closed (stop() is never called by main).
C14_LoaderPushesEveryBatch ==
    (l_pc = "done" /\ ~window_should_close) => l_sent = LoaderBatches

\* ------------------------------------------------------------------- C15
\* C15: distance_ lies in [MIN_DISTANCE, MAX_DISTANCE] in every camera state,
\* so it is strictly positive.
C15_DistanceBound ==
    /\ MIN_DISTANCE <= distance_
    /\ distance_ <= MAX_DISTANCE
    /\ distance_ > 0

\* a scroll towards the target has been cut off at the lower limit
C15_Witness ==
    /\ distance_ = MIN_DISTANCE
    /\ ~resetDone

\* ------------------------------------------------------------------- C16
\* C16: elevation_ lies in [-89, 89] in every camera state, and an orbit
\* whose vertical offset would take it past a limit leaves it exactly at that
\* limit.
C16_ElevationClamp ==
    /\ [](-ELEVATION_LIMIT <= elevation_ /\ elevation_ <= ELEVATION_LIMIT)
    /\ [][(cursor_captured_ /\ ~first_mouse_)
            => LET yoffset == (last_y_ - last_y_') * CAMERA_SENSITIVITY
               IN  /\ elevation_ + yoffset > ELEVATION_LIMIT
                        => elevation_' = ELEVATION_LIMIT
                   /\ elevation_ + yoffset < -ELEVATION_LIMIT
                        => elevation_' = -ELEVATION_LIMIT]_vars

\* the cursor was dragged from the top of the window to its bottom or
\* further with the camera looking down: the elevation stopped at -89
C16_Witness ==
    /\ cursor_captured_
    /\ ~first_mouse_
    /\ last_y_ = 1080
    /\ elevation_ = -ELEVATION_LIMIT

\* ------------------------------------------------------------------- C17
\* the sets of keys that make processInput() call resetCamera()
ResetKeySets == {{"R"}, {"LEFT", "R"}}

\* C17: a processInput() call that finds the R key down leaves target,
\* distance, azimuth, elevation, pan offset and field of view at their
\* construction-time values, whatever they were before.
C17_ResetRestoresDefaults ==
    [][\A dt \in FrameTimes, keys \in ResetKeySets :
          ProcessInput(dt, keys) => CameraAtDefaults']_vars

\* a reset has just run on a camera whose distance, azimuth, elevation and
\* pan offset had all been moved
C17_Witness ==
    /\ resetDone
    /\ CameraAtDefaults

\* ------------------------------------------------------------------- C18
\* C18: azimuth_ stays within one 360-degree range.  Whatever range is meant,
\* it contains the initial 0, so it lies strictly between -360 and 360.
C18_AzimuthWraps == -3600 < azimuth_ /\ azimuth_ < 3600

\* ------------------------------------------------------------------- C21
\* the viewer's own state, without the callers' positions and the history
viewerState ==
    <<queueVars, storeVars, gpuVars, is_running_, window_should_close, r_pc, w_pc,
      workerLocals>>

\* the two steps of a stop() call
StopBegins(c) == c_pc[c] = "idle" /\ c_pc'[c] = "stop_notify"
StopReturns(c) == c_pc[c] = "stop_notify" /\ c_pc'[c] = "idle"

\* C21: stop() leaves is_running_ false and the worker not waiting, and writes
\* nothing else; applied to a viewer whose flag is already false and whose
\* worker is not waiting, as stop() leaves it, a stop() changes nothing.
C21_StopIdempotent ==
    [][\A c \in Clients :
          /\ StopBegins(c)
               => /\ ~is_running_'
                  /\ UNCHANGED <<queueVars, storeVars, gpuVars, window_should_close,
                                 r_pc, w_pc, workerLocals>>
                  /\ ~is_running_ => UNCHANGED viewerState
          /\ StopReturns(c)
               => /\ w_pc' # "waiting"
                  /\ UNCHANGED <<queueVars, storeVars, gpuVars, is_running_,
                                 window_should_close, r_pc, workerLocals>>
                  /\ w_pc # "waiting" => UNCHANGED viewerState]_vars

\* a stop() has returned and the worker has exited; a further stop() call is
\* under way
C21_Witness ==
    /\ stopDone
    /\ ~is_running_
    /\ w_pc = "exited"
    /\ \E c \in Clients : c_pc[c] = "stop_notify"

\* ------------------------------------------------------------------- C22
\* The threads standing at a statement that reads or writes point_cloud_,
\* point_colors_ or data_updated_: render() at its test of the flag, at the
\* upload of point_colors_ and at the draw that reads point_cloud_.size();
\* processData at the insert into point_colors_; clearPoints at
\* point_colors_.clear().
StoreAccessors ==
    {t \in {Render} : r_pc \in {"sync_check", "up_col", "draw"}}
      \cup {t \in {Worker} : w_pc = "ins_col"}
      \cup {c \in Clients : c_pc[c] = "clr_col"}

\* C22: every thread that reads or writes the Store or the dirty flag holds
\* data_mutex_ while it does.
C22_StoreMutexCoversStore == \A t \in StoreAccessors : data_mutex_ = {t}

\* ------------------------------------------------------------------- C23
\* C23: the count of the point draw call equals the number of points in the
\* position and color buffers as of the last upload.
C23_DrawCountMatchesUpload ==
    [][(r_pc = "draw" /\ r_pc' = "loop")
          => /\ DrawCount = Len(gpu_pos) \div 3
             /\ DrawCount = Len(gpu_col) \div 3]_vars

\* ------------------------------------------------------------------- C24
\* The threads standing at a GPU call: render() between its two
\* glBufferData uploads and at the draw passes; clearPoints before its
\* glBufferData calls.
GpuCallers ==
    {t \in {Render} : r_pc \in {"up_col", "draw"}}
      \cup {c \in Clients : c_pc[c] = "clr_col"}

\* C24: a thread executing a GPU call holds neither data_mutex_ nor
\* queue_mutex_.
C24_NoLockAcrossGpuCall ==
    \A t \in GpuCallers : t \notin data_mutex_ /\ t \notin queue_mutex_

\* ------------------------------------------------------------------- C25
\* C25: only the render thread executes GPU calls.
C25_OnlyRenderCallsGpu == GpuCallers \subseteq {Render}

\* ------------------------------------------------------------------- C26
\* the render thread is inside render() or at the glfwPollEvents() after it
InFrame == r_pc \in {"sync_check", "sync_lock", "up_col", "draw"}

\* C26: the render thread never holds queue_mutex_; while it is in a frame
\* and the worker is suspended in its condition wait, it can take its next
\* step; and every frame it begins it completes.
C26_RenderNeverBlocksOnQueue ==
    /\ [](Render \notin queue_mutex_)
    /\ []((InFrame /\ w_pc \in {"block", "waiting"}) => ENABLED RenderStep)
    /\ (InFrame ~> (r_pc = "loop"))

\* a frame is at its draw while the worker is suspended in its wait and a
\* producer has pushed a batch
C26_Witness ==
    /\ r_pc = "draw"
    /\ w_pc = "waiting"
    /\ point_queue_ # << >>

\* ------------------------------------------------------------------- C27
\* where the thread that calls run() goes next: ProcessInput ("loop" to
\* "sync_check"), SyncData ("sync_check", "sync_lock", "up_col"), Draw and
\* Present ("draw"), and the way out of the loop
FrameSuccessors ==
    [pc \in {"constructed", "spawn", "loop", "sync_check", "sync_lock", "up_col",
             "draw", "exit_flag", "exit_notify", "join", "returned", "destroyed"} |->
        CASE pc = "constructed" -> {"spawn"}
          [] pc = "spawn" -> {"loop"}
          [] pc = "loop" -> {"sync_check", "exit_flag"}
          [] pc = "sync_check" -> {"sync_lock", "draw"}
          [] pc = "sync_lock" -> {"up_col"}
          [] pc = "up_col" -> {"draw"}
          [] pc = "draw" -> {"loop"}
          [] pc = "exit_flag" -> {"exit_notify"}
          [] pc = "exit_notify" -> {"join"}
          [] pc = "join" -> {"returned"}
          [] pc = "returned" -> {"destroyed"}
          [] pc = "destroyed" -> {}]

\* run() has left its loop and cleared the flag
Stopped == r_pc \in {"exit_notify", "join", "returned", "destroyed"}

C28_ShutdownOrdering ==
    [][/\ (r_pc = "exit_notify" /\ r_pc' # r_pc)
            => (~is_running_ /\ r_pc' = "join")
       /\ (r_pc = "join" /\ r_pc' # r_pc)
            => (~is_running_ /\ w_pc = "exited" /\ r_pc' = "returned")
       /\ (r_pc # "destroyed" /\ r_pc' = "destroyed")
            => (r_pc = "returned" /\ w_pc = "exited")]_vars

\* the loader pushed its whole file, the worker merged it and was joined, and
\* the destructor has released the GPU resources
C28_Witness ==
    /\ r_pc = "destroyed"
    /\ w_pc = "exited"
    /\ l_sent = LoaderBatches
    /\ point_cloud_ # << >>
    /\ gpu_pos = << >>

\* ------------------------------------------------------------------- C29
\* C29: a frame whose glGetError() reports an error does what a frame without
\* one does: is_running_, the Store, the queue and the GPU buffers are left
\* alone, the window's close condition changes only by a pending close event,
\* and run() goes back to its loop condition.
C29_GpuErrorNonFatal ==
    [][\A close \in BOOLEAN, resize \in Resizes :
          RenderDraw(close, TRUE, resize)
            => /\ window_should_close' = (window_should_close \/ close)
               /\ r_pc' = "loop"
               /\ UNCHANGED <<is_running_, queueVars, storeVars, gpuVars, w_pc>>]_vars

\* the frame after one that reported a GPU error is under way, with points in
\* the Store
C29_Witness ==
    /\ gl_error
    /\ r_pc = "sync_check"
    /\ point_cloud_ # << >>

\* ------------------------------------------------------------------- C30
\* C30: whenever render() is about to call perspective(), the height is at
\* least 1 and width / height is positive.
C30_AspectRatioGuard ==
    r_pc = "draw" => (Aspect[2] >= 1 /\ Aspect[1] * Aspect[2] > 0)

\* ------------------------------------------------------------------- C31
\* the steps of the render thread that run the input handlers: processInput()
\* at the top of the frame, glfwPollEvents() at its end
ProcessInputStep == r_pc = "loop" /\ r_pc' = "sync_check"
PollEventsStep == r_pc = "poll" /\ r_pc' = "loop"

\* what belongs to the producers, the worker, the Store, the queue and the GPU
\* buffers
ingestState ==
    <<queueVars, storeVars, gpuVars, w_pc, workerLocals, clientVars, pushed>>

\* C31 (as claimed): the Camera State changes only in the ProcessInput step
\* of a frame, and a step of an input handler changes neither the Store nor
\* the queue.
C31_CameraOnlyInProcessInput ==
    [][/\ cameraVars' # cameraVars => ProcessInputStep
       /\ (ProcessInputStep \/ PollEventsStep) => UNCHANGED ingestState]_vars

\* C31 (amended): the Camera State changes only in steps of the render
\* thread, the processInput() call of a frame and the glfwPollEvents() call
\* that ends it (which runs the cursor and scroll callbacks); addPoints,
\* processData, clearPoints, SyncData and the draw leave it alone, and a step
\* of an input handler changes neither the Store nor the queue.
C31_CameraOnlyInInputHandlers ==
    [][/\ cameraVars' # cameraVars => (ProcessInputStep \/ PollEventsStep)
       /\ (ProcessInputStep \/ PollEventsStep) => UNCHANGED ingestState]_vars

\* the user has zoomed and orbited with the wheel and the captured cursor
\* while the worker, holding data_mutex_, appends a batch and the frame's
\* draw is done
C31_Witness ==
    /\ r_pc = "poll"
    /\ distance_ # INITIAL_DISTANCE
    /\ azimuth_ # INITIAL_AZIMUTH
    /\ w_pc = "ins_col"
    /\ gpu_pos # << >>

\* ------------------------------------------------------------------- C32
\* the threads that hold a mutex
LockHolders == queue_mutex_ \cup data_mutex_

\* the next step of thread t
ThreadStep(t) ==
    IF t = Worker THEN WorkerStep
    ELSE IF t = Render THEN RenderStep
    ELSE \/ \E b \in Batches : AddPointsCall(t, b)
         \/ AddPointsNotify(t)
         \/ ClearPointsCall(t)
         \/ \E gl \in BOOLEAN : ClearPointsColors(t, gl)
         \/ StopCall(t)
         \/ StopNotify(t)

\* C32: no thread holds queue_mutex_ and data_mutex_ together, each mutex has
\* at most one holder, and every thread that holds a mutex can take its next
\* step, so no thread waits for a mutex whose holder waits for a mutex.
C32_NoNestedLocking ==
    /\ queue_mutex_ \cap data_mutex_ = {}
    /\ Cardinality(queue_mutex_) <= 1
    /\ Cardinality(data_mutex_) <= 1
    /\ \A t \in LockHolders : ENABLED ThreadStep(t)

\* the worker appends a batch under data_mutex_ with queue_mutex_ released,
\* while a producer has pushed the next batch and the render thread waits for
\* data_mutex_
C32_Witness ==
    /\ data_mutex_ = {Worker}
    /\ queue_mutex_ = {}
    /\ w_pc = "ins_col"
    /\ r_pc = "sync_lock"
    /\ point_queue_ # << >>
    /\ \E c \in Clients : c_pc[c] = "add_notify"

\* ------------------------------------------------------------------- C33
\* a shutdown has been requested: the window's close condition is set, or
\* is_running_ has gone from true to false
ShutdownRequested == window_should_close \/ queuedAtStop # -1

\* the first n batches pushed
FirstPushed(n) == SubSeq(pushed, 1, n)

\* the Store holds the first n batches pushed
Merged(n) ==
    /\ Len(pushed) >= n
    /\ IsPrefix(AllPositions(FirstPushed(n)), point_cloud_)
    /\ IsPrefix(AllColors(FirstPushed(n)), point_colors_)

\* the GPU buffers hold the first n batches pushed
Uploaded(n) ==
    /\ Len(pushed) >= n
    /\ IsPrefix(AllPositions(FirstPushed(n)), gpu_pos)
    /\ IsPrefix(AllColors(FirstPushed(n)), gpu_col)

\* C33: under fair scheduling, once the n-th batch is in the queue, either a
\* shutdown is requested or the worker merges the batch into the Store and the
\* render loop uploads it to the GPU buffers, for every n.
C33_IngestionProgress ==
    \A n \in 1..MaxOps :
        (Len(pushed) >= n) ~> (ShutdownRequested \/ (Merged(n) /\ Uploaded(n)))

\* with no shutdown requested, two batches pushed while the worker waited are
\* both in the GPU buffers, and the worker waits again
C33_Witness ==
    /\ ~ShutdownRequested
    /\ Len(pushed) = 2
    /\ Uploaded(2)
    /\ gpu_pos # << >>
    /\ w_pc = "waiting"
    /\ r_pc = "draw"

\* ------------------------------------------------------------------- C34
\* C34: cursor_captured_ flips in exactly those steps that are a
\* processInput() call finding F1 down when the call before it did not (the
\* first frame of a maximal run of frames with the key down); a flip into
\* captured mode leaves first_mouse_ set, and the mouse sample that finds it
\* set only stores its position.
C34_ToggleDebounced ==
    [][/\ (cursor_captured_' # cursor_captured_)
           <=> (~f1_down /\ \E dt \in FrameTimes, keys \in KeySets :
                                "F1" \in keys /\ ProcessInput(dt, keys))
       /\ (~cursor_captured_ /\ cursor_captured_') => first_mouse_'
       /\ \A xpos \in MouseXs, ypos \in MouseYs :
             (cursor_captured_ /\ first_mouse_ /\ MouseCallback(xpos, ypos))
               => /\ last_x_' = xpos
                  /\ last_y_' = ypos
                  /\ UNCHANGED <<azimuth_, elevation_>>]_vars

\* F1 has been down for two frames or more after a switch into captured mode,
\* and the mode is still captured, waiting for its first mouse sample
C34_Witness ==
    /\ f1_down
    /\ toggle_pressed_
    /\ cursor_captured_
    /\ first_mouse_
    /\ pan_x_ > 0

\* ------------------------------------------------------------------- C35
\* C35: a mouse sample that finds the cursor not captured leaves azimuth,
\* elevation and the last position alone; the first sample after a capture
\* only stores its position; every later one adds sensitivity times the
\* horizontal delta to the azimuth and sensitivity times the vertical delta to
\* the elevation, which is then clamped.  None changes distance or pan.
C35_OrbitOnlyWhenCaptured ==
    [][\A xpos \in MouseXs, ypos \in MouseYs :
          MouseCallback(xpos, ypos)
            => /\ UNCHANGED <<distance_, pan_x_, pan_y_>>
               /\ ~cursor_captured_
                    => UNCHANGED <<azimuth_, elevation_, last_x_, last_y_>>
               /\ (cursor_captured_ /\ first_mouse_)
                    => /\ UNCHANGED <<azimuth_, elevation_>>
                       /\ <<last_x_', last_y_'>> = <<xpos, ypos>>
               /\ (cursor_captured_ /\ ~first_mouse_)
                    => /\ azimuth_' = azimuth_
                                        + CAMERA_SENSITIVITY * (xpos - last_x_)
                       /\ elevation_' =
                            Clamp(elevation_ + CAMERA_SENSITIVITY * (last_y_ - ypos),
                                  -ELEVATION_LIMIT, ELEVATION_LIMIT)
                       /\ <<last_x_', last_y_'>> = <<xpos, ypos>>]_vars

\* the cursor was released after an orbit to the right on a zoomed and panned
\* camera, and has been sampled again since: the orbit is where it was left
C35_Witness ==
    /\ ~cursor_captured_
    /\ ~first_mouse_
    /\ azimuth_ = 3600
    /\ last_x_ = 3600
    /\ distance_ # INITIAL_DISTANCE
    /\ pan_x_ # 0

====
